---- MODULE Spec2Model ----
(***************************************************************************)
(* update-profile service: a Lambda handler that validates a user profile, *)
(* writes it to the AT Protocol record service (putRecord) and mirrors it  *)
(* into the DynamoDB table "Users".                                        *)
(*                                                                         *)
(* Go strings are modelled as TLA+ strings when they are compared whole,   *)
(* and as sequences of string tokens when the code builds them by          *)
(* concatenation, fmt.Errorf or strings.Join.  A Go error is a record      *)
(* [isNil, text]; err.Error() is its text.                                 *)
(***************************************************************************)
EXTENDS Integers, Sequences, FiniteSets, TLC

VARIABLES
    entry,          \* the function the current call chain was entered through
    pc,             \* position of the single thread of control
    invocations,    \* number of calls started so far
    request,        \* models.RequestPayload of the current call (Repo, Profile, BearerToken)
    result,         \* payload returned by the entry function (map[string]string / tuple)
    err,            \* error returned by the entry function
    calls,          \* outbound calls made by the current call, in order
    remaining,      \* buildUpdateExpression: keys of `fields` not yet visited by range
    updateParts,    \* buildUpdateExpression: updateParts
    exprValues,     \* buildUpdateExpression: exprValues
    updateExpr,     \* buildUpdateExpression: updateExpr as returned
    prevExpr,       \* updateExpr returned by the previous call on the same profile
    prevRet,        \* error returned by the previous call of validateProfile on the same profile
    response,       \* HandleRequest: response returned by updateProfileInATProtocol
    ret,            \* error returned by the last callee that returned
    putRecords,     \* records committed in the record service
    updatedItems    \* UpdateItem operations applied by the table

vars == <<entry, pc, invocations, request, result, err, calls, remaining,
          updateParts, exprValues, updateExpr, prevExpr, prevRet, response,
          ret, putRecords, updatedItems>>

-----------------------------------------------------------------------------
(* Bounds of the model *)

\* number of HandleRequest invocations a behaviour may start
MaxInvocations == 2

\* number of direct calls of buildUpdateExpression on one profile
MaxBuildCalls == 2

\* largest number of non-empty updatable fields of a profile that is built again
MaxPopulated == 2

\* number of direct calls of validateProfile on one profile
MaxValidateCalls == 2

-----------------------------------------------------------------------------
(* Go values *)

Nil == [isNil |-> TRUE, text |-> <<>>]

\* errors.New / fmt.Errorf
Error(text) == [isNil |-> FALSE, text |-> text]

\* strings.Join(parts, sep) where every part is a sequence of tokens
RECURSIVE Join(_, _)
Join(parts, sep) ==
    IF parts = <<>> THEN <<>>
    ELSE IF Len(parts) = 1 THEN Head(parts)
    ELSE Head(parts) \o <<sep>> \o Join(Tail(parts), sep)

\* Bio values.  Each literal stands for the string described; GoLen is what
\* Go's len() returns for it (bytes), RuneCount its number of characters.
BioValues == {"", "a x256", "a x257", "e-acute x200"}

GoLen(s) ==
    CASE s = "" -> 0
      [] s = "Test Bio" -> 8
      [] s = "a x256" -> 256
      [] s = "a x257" -> 257
      [] s = "e-acute x200" -> 400

RuneCount(s) ==
    CASE s = "" -> 0
      [] s = "Test Bio" -> 8
      [] s = "a x256" -> 256
      [] s = "a x257" -> 257
      [] s = "e-acute x200" -> 200

\* time.Parse(time.RFC3339, s) returns no error
ParsesRFC3339(s) == s \in {"2025-02-23T12:00:00Z"}

UpdatedAtValues == {"", "2025-02-23T12:00:00Z", "23/02/2025"}

\* models.UserProfile
UserProfile ==
    [NSID : {"social.shareframe.profile", "app.bsky.actor.profile"},
     DisplayName : {"", "John Doe"},
     Bio : BioValues,
     ProfilePicture : {"", "picture.jpg"},
     ProfileBanner : {"", "banner.jpg"},
     Theme : {"", "dark", "neon"},
     PrimaryColor : {"", "blue"},
     SecondaryColor : {"", "red"},
     UpdatedAt : UpdatedAtValues]

\* models.RequestPayload
RequestPayload ==
    [Repo : {"", "user123"}, Profile : UserProfile, BearerToken : {"token"}]

MaxBioLen == 256

-----------------------------------------------------------------------------
(* handler.validateProfile *)

\* validationErrors when an NSID mismatch returns at once, before the other rules
validationErrorsOf_NSIDFirst(profile) ==
    IF profile.NSID # "social.shareframe.profile"
      THEN << <<"invalid NSID: only social.shareframe.profile is allowed">> >>
      ELSE (IF profile.DisplayName = ""
              THEN << <<"displayName must be present">> >> ELSE <<>>)
           \o (IF GoLen(profile.Bio) > 256
                 THEN << <<"bio must be 256 characters or fewer">> >> ELSE <<>>)
           \o (IF profile.Theme # "" /\ profile.Theme # "light"
                  /\ profile.Theme # "dark" /\ profile.Theme # "custom"
                 THEN << <<"theme must be light, dark, or custom">> >> ELSE <<>>)
           \o (IF profile.UpdatedAt # "2025-02-23T12:00:00Z"
                 THEN << <<"invalid datetime format for updatedAt">> >> ELSE <<>>)

validationErrorsOf(profile) ==
    (IF profile.NSID # "social.shareframe.profile"
       THEN << <<"invalid NSID: only social.shareframe.profile is allowed">> >>
       ELSE <<>>)
    \o (IF profile.DisplayName = ""
          THEN << <<"displayName must be present">> >> ELSE <<>>)
    \o (IF GoLen(profile.Bio) > MaxBioLen
          THEN << <<"bio must be 256 characters or fewer">> >> ELSE <<>>)
    \o (IF profile.Theme # "" /\ profile.Theme # "light"
           /\ profile.Theme # "dark" /\ profile.Theme # "custom"
          THEN << <<"theme must be light, dark, or custom">> >> ELSE <<>>)
    \o (IF ~ParsesRFC3339(profile.UpdatedAt)
          THEN << <<"invalid datetime format for updatedAt">> >> ELSE <<>>)

validateProfile(profile) ==
    LET validationErrors == validationErrorsOf(profile)
    IN  IF Len(validationErrors) > 0
          THEN Error(<<"profile validation failed: ">> \o Join(validationErrors, "; "))
          ELSE Nil

-----------------------------------------------------------------------------
(* handler.updateProfileInATProtocol *)

\* what client.Do(req) can return: a transport error, or a response
HttpResponses ==
    {[err |-> Error(<<"dial tcp: i/o timeout">>), StatusCode |-> 0, Status |-> ""]}
    \cup {[err |-> Nil, StatusCode |-> c[1], Status |-> c[2]] :
            c \in {<<200, "200 OK">>, <<201, "201 Created">>,
                   <<401, "401 Unauthorized">>,
                   <<500, "500 Internal Server Error">>}}

StatusOK == 200

\* the request sent by client.Do: POST putRecord with the marshalled body
putRecordRequest(repo, profile, bearerToken, validate, rkey) ==
    [op |-> "putRecord",
     url |-> "https://shareframe.social/xrpc/com.atproto.repo.putRecord",
     Authorization |-> <<"Bearer ", bearerToken>>,
     repo |-> repo, collection |-> "social.shareframe.profile",
     rkey |-> rkey, validate |-> validate, record |-> profile]

\* updateProfileInATProtocol without the status check
updateProfileInATProtocol_NoStatusCheck(resp) ==
    IF ~resp.err.isNil THEN <<"", resp.err>>
    ELSE <<"Profile successfully updated", Nil>>

\* the (string, error) pair returned once client.Do has returned resp
updateProfileInATProtocol(resp) ==
    IF ~resp.err.isNil THEN <<"", resp.err>>
    ELSE IF resp.StatusCode # StatusOK
      THEN <<"", Error(<<"failed to update profile: ", resp.Status>>)>>
    ELSE <<"Profile successfully updated", Nil>>

-----------------------------------------------------------------------------
(* dynamodb.buildUpdateExpression *)

\* keys of the map `fields`
FieldNames ==
    {"DisplayName", "Bio", "ProfilePicture", "ProfileBanner", "Theme",
     "PrimaryColor", "SecondaryColor"}

\* the map literal with ProfileBanner taken from profile.ProfilePicture
fields_BannerFromPicture(profile, field) ==
    CASE field = "DisplayName" -> profile.DisplayName
      [] field = "Bio" -> profile.Bio
      [] field = "ProfilePicture" -> profile.ProfilePicture
      [] field = "ProfileBanner" -> profile.ProfilePicture
      [] field = "Theme" -> profile.Theme
      [] field = "PrimaryColor" -> profile.PrimaryColor
      [] field = "SecondaryColor" -> profile.SecondaryColor

\* fields[field]
fields(profile, field) ==
    CASE field = "DisplayName" -> profile.DisplayName
      [] field = "Bio" -> profile.Bio
      [] field = "ProfilePicture" -> profile.ProfilePicture
      [] field = "ProfileBanner" -> profile.ProfileBanner
      [] field = "Theme" -> profile.Theme
      [] field = "PrimaryColor" -> profile.PrimaryColor
      [] field = "SecondaryColor" -> profile.SecondaryColor

\* field + " = :" + field
Clause(field) ==
    CASE field = "DisplayName" -> "DisplayName = :DisplayName"
      [] field = "Bio" -> "Bio = :Bio"
      [] field = "ProfilePicture" -> "ProfilePicture = :ProfilePicture"
      [] field = "ProfileBanner" -> "ProfileBanner = :ProfileBanner"
      [] field = "Theme" -> "Theme = :Theme"
      [] field = "PrimaryColor" -> "PrimaryColor = :PrimaryColor"
      [] field = "SecondaryColor" -> "SecondaryColor = :SecondaryColor"
      [] field = "UpdatedAt" -> "UpdatedAt = :UpdatedAt"

\* ":" + field
Placeholder(field) ==
    CASE field = "DisplayName" -> ":DisplayName"
      [] field = "Bio" -> ":Bio"
      [] field = "ProfilePicture" -> ":ProfilePicture"
      [] field = "ProfileBanner" -> ":ProfileBanner"
      [] field = "Theme" -> ":Theme"
      [] field = "PrimaryColor" -> ":PrimaryColor"
      [] field = "SecondaryColor" -> ":SecondaryColor"
      [] field = "UpdatedAt" -> ":UpdatedAt"

EmptyMap == [k \in {} |-> ""]

\* m[key] = value on a Go map
MapSet(m, key, value) ==
    [k \in DOMAIN m \cup {key} |-> IF k = key THEN value ELSE m[k]]

\* instants time.Now() may return
Clock == {1, 2}

\* t.Format(time.RFC3339)
FormatRFC3339(t) ==
    CASE t = 1 -> "2025-02-23T12:00:01Z"
      [] t = 2 -> "2025-02-23T12:00:02Z"

-----------------------------------------------------------------------------
(* State shared by the call chains *)

NoResult == [k \in {} |-> <<>>]

ZeroProfile ==
    [NSID |-> "", DisplayName |-> "", Bio |-> "", ProfilePicture |-> "",
     ProfileBanner |-> "", Theme |-> "", PrimaryColor |-> "",
     SecondaryColor |-> "", UpdatedAt |-> ""]

ZeroRequest == [Repo |-> "", Profile |-> ZeroProfile, BearerToken |-> ""]

\* profiles as the package's tests build them: only updatable fields are set
TestProfiles ==
    [NSID : {""},
     DisplayName : {"", "John Doe"},
     Bio : {"", "Test Bio"},
     ProfilePicture : {"", "picture.jpg"},
     ProfileBanner : {"", "banner.jpg"},
     Theme : {"", "dark"},
     PrimaryColor : {"", "blue"},
     SecondaryColor : {"", "red"},
     UpdatedAt : {""}]

locals == <<remaining, updateParts, exprValues, updateExpr>>

services == <<putRecords, updatedItems>>

InitFrame ==
    /\ invocations = 0
    /\ result = NoResult
    /\ err = Nil
    /\ calls = <<>>
    /\ remaining = {}
    /\ updateParts = <<>>
    /\ exprValues = EmptyMap
    /\ updateExpr = <<>>
    /\ prevExpr = <<>>
    /\ prevRet = Nil
    /\ response = ""
    /\ ret = Nil
    /\ putRecords = 0
    /\ updatedItems = 0

\* first statements of buildUpdateExpression: the map `fields` and the empty results
buildUpdateExpression_begin ==
    /\ remaining' = FieldNames
    /\ updateParts' = <<>>
    /\ exprValues' = EmptyMap
    /\ updateExpr' = <<>>

-----------------------------------------------------------------------------
(* handler.HandleRequest, one invocation after another *)

\* lambda.Start hands the next request to HandleRequest
Invoke ==
    /\ entry = "HandleRequest"
    /\ pc = "idle"
    /\ invocations < MaxInvocations
    /\ \E r \in RequestPayload : request' = r
    /\ invocations' = invocations + 1
    /\ pc' = "NewDynamoClient"
    /\ UNCHANGED <<entry, result, err, calls, locals, prevExpr, prevRet, response, ret, services>>

\* what config.LoadDefaultConfig can return
ConfigErrors == {Nil, Error(<<"failed to refresh cached credentials">>)}

\* dynamodb.NewDynamoClient, as an error
NewDynamoClient(cfgErr) ==
    IF ~cfgErr.isNil
      THEN Error(<<"failed to load AWS SDK config: ">> \o cfgErr.text)
      ELSE Nil

\* the (payload, error) pairs HandleRequest returns
OnClientError(e) == [result |-> [error |-> <<"Internal server error">>], err |-> e]

\* the validation branch returning err as the store branch does
OnValidationError_Escalates(e) == [result |-> [error |-> e.text], err |-> e]

OnValidationError(e) == [result |-> [error |-> e.text], err |-> Nil]

OnRecordError(e) == [result |-> [error |-> e.text], err |-> Nil]

\* the store branch returning nil as the record branch does
OnStoreError_Swallows(e) ==
    [result |-> [error |-> <<"Failed to update profile in database">>], err |-> Nil]

\* the store branch logging the error and falling through to the success return
OnStoreError_FallsThrough(e) ==
    [result |-> [message |-> <<"Profile updated successfully">>,
                 response |-> <<"Profile successfully updated">>],
     err |-> Nil]

OnStoreError(e) ==
    [result |-> [error |-> <<"Failed to update profile in database">>], err |-> e]

OnSuccess(resp) ==
    [result |-> [message |-> <<"Profile updated successfully">>, response |-> <<resp>>],
     err |-> Nil]

HandleRequest_NewDynamoClient ==
    /\ entry = "HandleRequest"
    /\ pc = "NewDynamoClient"
    /\ \E cfgErr \in ConfigErrors :
         LET e == NewDynamoClient(cfgErr)
         IN  /\ ret' = e
             /\ IF ~e.isNil
                  THEN /\ result' = OnClientError(e).result
                       /\ err' = OnClientError(e).err
                       /\ pc' = "done"
                  ELSE /\ pc' = "validateProfile"
                       /\ UNCHANGED <<result, err>>
    /\ UNCHANGED <<entry, invocations, request, calls, locals, prevExpr, prevRet, response,
                   services>>

HandleRequest_validateProfile ==
    /\ entry = "HandleRequest"
    /\ pc = "validateProfile"
    /\ LET e == validateProfile(request.Profile)
       IN  /\ ret' = e
           /\ IF ~e.isNil
                THEN /\ result' = OnValidationError(e).result
                     /\ err' = OnValidationError(e).err
                     /\ pc' = "done"
                ELSE /\ pc' = "updateProfileInATProtocol"
                     /\ UNCHANGED <<result, err>>
    /\ UNCHANGED <<entry, invocations, request, calls, locals, prevExpr, prevRet, response,
                   services>>

HandleRequest_updateProfileInATProtocol ==
    /\ entry = "HandleRequest"
    /\ pc = "updateProfileInATProtocol"
    /\ \E resp \in HttpResponses :
         LET r == updateProfileInATProtocol(resp)
             req == putRecordRequest(request.Repo, request.Profile,
                                     request.BearerToken, FALSE, invocations)
         IN  /\ calls' = Append(calls, [req |-> req, resp |-> resp])
             /\ putRecords' = IF resp.err.isNil /\ resp.StatusCode = StatusOK
                                THEN putRecords + 1 ELSE putRecords
             /\ response' = r[1]
             /\ ret' = r[2]
             /\ IF ~r[2].isNil
                  THEN /\ result' = OnRecordError(r[2]).result
                       /\ err' = OnRecordError(r[2]).err
                       /\ pc' = "done"
                  ELSE /\ pc' = "UpdateUserInDynamoDB"
                       /\ UNCHANGED <<result, err>>
    /\ UNCHANGED <<entry, invocations, request, locals, prevExpr, prevRet, updatedItems>>

\* the statements after dynamoClient.UpdateUserInDynamoDB has returned `ret`
HandleRequest_UpdateUserInDynamoDB ==
    /\ entry = "HandleRequest"
    /\ pc = "UpdateUserReturned"
    /\ IF ~ret.isNil
         THEN /\ result' = OnStoreError(ret).result
              /\ err' = OnStoreError(ret).err
         ELSE /\ result' = OnSuccess(response).result
              /\ err' = OnSuccess(response).err
    /\ pc' = "done"
    /\ UNCHANGED <<entry, invocations, request, calls, locals, prevExpr, prevRet, response,
                   ret, services>>

\* the runtime delivers (result, err); nothing of the invocation is kept
Return ==
    /\ entry = "HandleRequest"
    /\ pc = "done"
    /\ pc' = "idle"
    /\ request' = ZeroRequest
    /\ result' = NoResult
    /\ err' = Nil
    /\ calls' = <<>>
    /\ remaining' = {}
    /\ updateParts' = <<>>
    /\ exprValues' = EmptyMap
    /\ updateExpr' = <<>>
    /\ response' = ""
    /\ ret' = Nil
    /\ UNCHANGED <<entry, invocations, prevExpr, prevRet, services>>

-----------------------------------------------------------------------------
(* dynamodb.DynamoClient.UpdateUserInDynamoDB and buildUpdateExpression *)

\* UpdateUserInDynamoDB without the userID check
UpdateUserInDynamoDB_begin_NoUserIDCheck ==
    /\ pc = "UpdateUserInDynamoDB"
    /\ remaining' = {"DisplayName", "Bio", "ProfilePicture", "ProfileBanner",
                     "Theme", "PrimaryColor", "SecondaryColor"}
    /\ updateParts' = <<>>
    /\ exprValues' = [k \in {} |-> ""]
    /\ updateExpr' = <<>>
    /\ pc' = "range"
    /\ UNCHANGED <<entry, invocations, request, result, err, calls, prevExpr, prevRet,
                   response, ret, putRecords, updatedItems>>

\* userID check, then the call of buildUpdateExpression(profile)
UpdateUserInDynamoDB_begin ==
    /\ pc = "UpdateUserInDynamoDB"
    /\ IF request.Repo = ""
         THEN /\ ret' = Error(<<"userID cannot be empty">>)
              /\ pc' = "UpdateUserReturned"
              /\ UNCHANGED locals
         ELSE /\ buildUpdateExpression_begin
              /\ pc' = "range"
              /\ UNCHANGED ret
    /\ UNCHANGED <<entry, invocations, request, result, err, calls, prevExpr, prevRet,
                   response, services>>

\* the loop body leaving the loop (break) at the first empty value
buildUpdateExpression_range_BreakOnEmpty ==
    /\ pc = "range"
    /\ remaining # {}
    /\ \E field \in remaining :
         LET value == fields(request.Profile, field)
         IN  IF value # ""
               THEN /\ remaining' = remaining \ {field}
                    /\ updateParts' = Append(updateParts, <<Clause(field)>>)
                    /\ exprValues' = MapSet(exprValues, Placeholder(field), value)
               ELSE /\ remaining' = {}
                    /\ UNCHANGED <<updateParts, exprValues>>
    /\ UNCHANGED <<entry, pc, invocations, request, result, err, calls, updateExpr,
                   prevExpr, prevRet, response, ret, putRecords, updatedItems>>

\* one iteration of `for field, value := range fields`: any key not yet visited
buildUpdateExpression_range ==
    /\ pc = "range"
    /\ remaining # {}
    /\ \E field \in remaining :
         LET value == fields(request.Profile, field)
         IN  /\ remaining' = remaining \ {field}
             /\ IF value # ""
                  THEN /\ updateParts' = Append(updateParts, <<Clause(field)>>)
                       /\ exprValues' = MapSet(exprValues, Placeholder(field), value)
                  ELSE UNCHANGED <<updateParts, exprValues>>
    /\ UNCHANGED <<entry, pc, invocations, request, result, err, calls, updateExpr,
                   prevExpr, prevRet, response, ret, services>>

\* after the loop: the UpdatedAt binding and clause, the join, the return
buildUpdateExpression_return ==
    /\ pc = "range"
    /\ remaining = {}
    /\ \E now \in Clock :
         exprValues' = MapSet(exprValues, Placeholder("UpdatedAt"), FormatRFC3339(now))
    /\ updateParts' = Append(updateParts, <<Clause("UpdatedAt")>>)
    /\ updateExpr' = Join(updateParts', ", ")
    /\ pc' = IF entry = "buildUpdateExpression" THEN "done" ELSE "built"
    /\ UNCHANGED <<entry, invocations, request, result, err, calls, remaining,
                   prevExpr, prevRet, response, ret, services>>

\* what Client.UpdateItem can return as its error
UpdateItemErrors == {Nil, Error(<<"ProvisionedThroughputExceededException">>)}

UpdateItemInput(userID) ==
    [op |-> "UpdateItem", TableName |-> "Users", Key |-> [UserId |-> userID],
     UpdateExpression |-> <<"SET ">> \o updateExpr,
     ExpressionAttributeValues |-> exprValues, ReturnValues |-> "UPDATED_NEW"]

\* the statements after buildUpdateExpression has returned, without the
\* `len(exprValues) == 1` test
UpdateUserInDynamoDB_UpdateItem_NoFieldCheck ==
    /\ pc = "built"
    /\ \E e \in UpdateItemErrors :
         /\ calls' = Append(calls, [req |-> UpdateItemInput(request.Repo),
                                    resp |-> [err |-> e]])
         /\ updatedItems' = IF e.isNil THEN updatedItems + 1 ELSE updatedItems
         /\ ret' = IF ~e.isNil
                     THEN Error(<<"failed to update user in DynamoDB: ">> \o e.text)
                     ELSE Nil
    /\ pc' = "UpdateUserReturned"
    /\ UNCHANGED <<entry, invocations, request, result, err, remaining, updateParts,
                   exprValues, updateExpr, prevExpr, prevRet, response, putRecords>>

\* the statements after buildUpdateExpression has returned
UpdateUserInDynamoDB_UpdateItem ==
    /\ pc = "built"
    /\ IF Cardinality(DOMAIN exprValues) = 1
         THEN /\ ret' = Error(<<"no valid fields provided to update">>)
              /\ UNCHANGED <<calls, updatedItems>>
         ELSE \E e \in UpdateItemErrors :
                /\ calls' = Append(calls, [req |-> UpdateItemInput(request.Repo),
                                           resp |-> [err |-> e]])
                /\ updatedItems' = IF e.isNil THEN updatedItems + 1 ELSE updatedItems
                /\ ret' = IF ~e.isNil
                            THEN Error(<<"failed to update user in DynamoDB: ">> \o e.text)
                            ELSE Nil
    /\ pc' = "UpdateUserReturned"
    /\ UNCHANGED <<entry, invocations, request, result, err, locals, prevExpr, prevRet,
                   response, putRecords>>

-----------------------------------------------------------------------------
(* The service: lambda.Start(handler.HandleRequest) *)

Init ==
    /\ entry = "HandleRequest"
    /\ pc = "idle"
    /\ request = ZeroRequest
    /\ InitFrame

Next ==
    \/ Invoke
    \/ HandleRequest_NewDynamoClient
    \/ HandleRequest_validateProfile
    \/ HandleRequest_updateProfileInATProtocol
    \/ UpdateUserInDynamoDB_begin
    \/ buildUpdateExpression_range
    \/ buildUpdateExpression_return
    \/ UpdateUserInDynamoDB_UpdateItem
    \/ HandleRequest_UpdateUserInDynamoDB
    \/ Return

Spec == Init /\ [][Next]_vars

-----------------------------------------------------------------------------
(* validateProfile called on its own, on every profile *)

\* validateProfile with its rules kept in a map and ranged over, so that the
\* violated reasons are appended in any order
validateProfile_call_MapOrder ==
    /\ entry = "validateProfile"
    /\ \/ pc = "validateProfile"
       \/ pc = "done" /\ invocations < MaxValidateCalls
    /\ prevRet' = ret
    /\ LET validationErrors == validationErrorsOf(request.Profile)
           n == Len(validationErrors)
       IN  IF n > 0
             THEN \E order \in Permutations(1..n) :
                    ret' = Error(<<"profile validation failed: ">>
                                 \o Join([i \in 1..n |-> validationErrors[order[i]]], "; "))
             ELSE ret' = Nil
    /\ pc' = "done"
    /\ invocations' = invocations + 1
    /\ UNCHANGED <<entry, request, result, err, calls, remaining, updateParts,
                   exprValues, updateExpr, prevExpr, response, putRecords,
                   updatedItems>>

\* one call of validateProfile(profile); it may be called again on the same profile
validateProfile_call ==
    /\ entry = "validateProfile"
    /\ \/ pc = "validateProfile"
       \/ pc = "done" /\ invocations < MaxValidateCalls
    /\ prevRet' = ret
    /\ ret' = validateProfile(request.Profile)
    /\ pc' = "done"
    /\ invocations' = invocations + 1
    /\ UNCHANGED <<entry, request, result, err, calls, locals, prevExpr, response,
                   services>>

InitValidate ==
    /\ entry = "validateProfile"
    /\ pc = "validateProfile"
    /\ \E p \in UserProfile :
         request = [Repo |-> "user123", Profile |-> p, BearerToken |-> ""]
    /\ InitFrame

SpecValidate == InitValidate /\ [][validateProfile_call]_vars

-----------------------------------------------------------------------------
(* UpdateUserInDynamoDB called on its own, as TestUpdateUserInDynamoDB does *)

InitDynamo ==
    /\ entry = "UpdateUserInDynamoDB"
    /\ pc = "UpdateUserInDynamoDB"
    /\ request \in [Repo : {"", "user123"}, Profile : TestProfiles, BearerToken : {""}]
    /\ InitFrame

NextDynamo ==
    \/ UpdateUserInDynamoDB_begin
    \/ buildUpdateExpression_range
    \/ buildUpdateExpression_return
    \/ UpdateUserInDynamoDB_UpdateItem

SpecDynamo == InitDynamo /\ [][NextDynamo]_vars

-----------------------------------------------------------------------------
(* buildUpdateExpression called on its own, as TestBuildUpdateExpression does, *)
(* and called again on the same profile                                       *)

\* number of non-empty updatable fields
Populated(profile) == Cardinality({f \in FieldNames : profile[f] # ""})

buildUpdateExpression_call ==
    /\ entry = "buildUpdateExpression"
    /\ \/ pc = "buildUpdateExpression"
       \/ /\ pc = "done"
          /\ invocations < MaxBuildCalls
          /\ Populated(request.Profile) <= MaxPopulated
    /\ prevExpr' = updateExpr
    /\ invocations' = invocations + 1
    /\ buildUpdateExpression_begin
    /\ pc' = "range"
    /\ UNCHANGED <<entry, request, result, err, calls, prevRet, response, ret,
                   services>>

InitBuild ==
    /\ entry = "buildUpdateExpression"
    /\ pc = "buildUpdateExpression"
    /\ \E p \in TestProfiles :
         request = [Repo |-> "", Profile |-> p, BearerToken |-> ""]
    /\ InitFrame

NextBuild ==
    \/ buildUpdateExpression_call
    \/ buildUpdateExpression_range
    \/ buildUpdateExpression_return

SpecBuild == InitBuild /\ [][NextBuild]_vars

-----------------------------------------------------------------------------
(* Properties of HandleRequest (specification Spec) *)

IsPutRecord(c) == c.req.op = "putRecord"

IsUpdateItem(c) == c.req.op = "UpdateItem"

\* the record service answered this putRecord with HTTP 200
Answered200(c) == IsPutRecord(c) /\ c.resp.err.isNil /\ c.resp.StatusCode = 200

PutRecordCalls == {i \in 1..Len(calls) : IsPutRecord(calls[i])}

UpdateItemCalls == {i \in 1..Len(calls) : IsUpdateItem(calls[i])}

\* positions at which the store step of the invocation is under way or over
StorePcs == {"UpdateUserInDynamoDB", "range", "built", "UpdateUserReturned"}

\* C1: the store update (UpdateUserInDynamoDB, and the UpdateItem it issues) is
\* attempted only after the putRecord of the same invocation was answered with
\* HTTP 200; when the record write failed or was never reached, no store call
\* is in the invocation's calls and the store step is never entered.
C1_StoreOnlyAfterRecordSuccess ==
    entry = "HandleRequest" =>
      /\ \A i \in UpdateItemCalls : \E j \in 1..(i - 1) : Answered200(calls[j])
      /\ pc \in StorePcs => (Len(calls) >= 1 /\ Answered200(calls[1]))
      /\ (\A j \in 1..Len(calls) : ~Answered200(calls[j])) =>
            /\ UpdateItemCalls = {}
            /\ pc \notin StorePcs

C1_Witness ==
    /\ entry = "HandleRequest"
    /\ Len(calls) = 2
    /\ Answered200(calls[1])
    /\ IsUpdateItem(calls[2])

\* C2: when validateProfile rejects the profile, HandleRequest makes no
\* record-service call and no store call, and returns a failure payload with a
\* nil error.
C2_ValidationFailureIsPayloadOnly ==
    (entry = "HandleRequest" /\ invocations > 0 /\ pc # "idle"
       /\ ~validateProfile(request.Profile).isNil) =>
      /\ calls = <<>>
      /\ pc \in {"NewDynamoClient", "validateProfile", "done"}
      /\ (pc = "done" /\ ret = validateProfile(request.Profile)) =>
            /\ DOMAIN result = {"error"}
            /\ result.error = validateProfile(request.Profile).text
            /\ err.isNil

C2_Witness ==
    /\ entry = "HandleRequest"
    /\ pc = "done"
    /\ ~ret.isNil
    /\ ret = validateProfile(request.Profile)
    /\ request.Profile.NSID # "social.shareframe.profile"

\* the record write of this invocation was made and failed
RecordWriteFailed ==
    /\ Len(calls) = 1
    /\ IsPutRecord(calls[1])
    /\ ~Answered200(calls[1])

\* C3: when the profile is valid and the record-service write fails (non-200
\* status or transport error), HandleRequest returns a non-nil error together
\* with a failure payload.
C3_RecordFailureEscalates ==
    (entry = "HandleRequest" /\ pc = "done" /\ RecordWriteFailed) =>
      /\ "error" \in DOMAIN result
      /\ ~err.isNil

\* the record write succeeded and the store update then returned an error
StoreFailedAfterRecord ==
    /\ entry = "HandleRequest"
    /\ pc = "done"
    /\ Len(calls) >= 1
    /\ Answered200(calls[1])
    /\ ~ret.isNil

\* C4: when the record write succeeded and the store update then fails,
\* HandleRequest returns a non-nil error and a failure payload; it makes no
\* further record-service call in the invocation, and the committed record is
\* never taken back.
C4_StoreFailureNoCompensation ==
    /\ [](StoreFailedAfterRecord =>
            /\ ~err.isNil
            /\ DOMAIN result = {"error"}
            /\ PutRecordCalls = {1}
            /\ putRecords >= 1)
    /\ [][/\ putRecords' >= putRecords
          /\ StoreFailedAfterRecord => calls' = <<>> /\ putRecords' = putRecords]_vars

C4_Witness ==
    /\ StoreFailedAfterRecord
    /\ Len(calls) = 2
    /\ ~calls[2].resp.err.isNil

\* the payload and error of the success return
IsSuccessResult ==
    /\ DOMAIN result = {"message", "response"}
    /\ result.message = <<"Profile updated successfully">>
    /\ err.isNil

\* C5: HandleRequest returns the success result if and only if validation
\* passed, the record service was called exactly once and answered 200, and the
\* store update was called exactly once and returned no error; no call is
\* repeated within an invocation.
C5_SuccessIffAllStepsOnce ==
    entry = "HandleRequest" =>
      /\ Cardinality(PutRecordCalls) <= 1
      /\ Cardinality(UpdateItemCalls) <= 1
      /\ pc = "done" =>
           (IsSuccessResult <=>
              /\ validateProfile(request.Profile).isNil
              /\ Cardinality(PutRecordCalls) = 1
              /\ \A i \in PutRecordCalls : Answered200(calls[i])
              /\ Cardinality(UpdateItemCalls) = 1
              /\ \A i \in UpdateItemCalls : calls[i].resp.err.isNil)

C5_Witness ==
    /\ entry = "HandleRequest"
    /\ pc = "done"
    /\ IsSuccessResult
    /\ Populated(request.Profile) = 7

-----------------------------------------------------------------------------
(* Properties of validateProfile (specification SpecValidate) *)

\* the reason is one of those joined into the error
HasReason(e, reason) == \E i \in 1..Len(e.text) : e.text[i] = reason

-----------------------------------------------------------------------------
(* Properties of buildUpdateExpression (specification SpecBuild) *)

\* the clauses of a joined expression
Clauses(expr) == SelectSeq(expr, LAMBDA t : t # ", ")

ClauseSet(expr) == {expr[i] : i \in {j \in 1..Len(expr) : expr[j] # ", "}}

BuildReturned == entry = "buildUpdateExpression" /\ pc = "done"

\* C7: the binding map has one entry per non-empty field plus :UpdatedAt; the
\* expression has exactly one "<Field> = :<Field>" clause per non-empty field,
\* none for an empty field, then "UpdatedAt = :UpdatedAt" as its last clause,
\* joined with ", "; with all seven fields empty it is exactly
\* "UpdatedAt = :UpdatedAt" and the map has size 1.
C7_OneClausePerNonEmptyField ==
    BuildReturned =>
      LET p == request.Profile
          n == Populated(p)
          cl == Clauses(updateExpr)
      IN  /\ Cardinality(DOMAIN exprValues) = n + 1
          /\ ":UpdatedAt" \in DOMAIN exprValues
          /\ Len(cl) = n + 1
          /\ Len(updateExpr) = 2 * n + 1
          /\ \A i \in 1..Len(updateExpr) : (updateExpr[i] = ", ") <=> (i % 2 = 0)
          /\ cl[n + 1] = "UpdatedAt = :UpdatedAt"
          /\ \A f \in FieldNames :
               /\ Cardinality({i \in 1..n : cl[i] = Clause(f)})
                    = (IF p[f] # "" THEN 1 ELSE 0)
               /\ p[f] # "" =>
                    /\ Placeholder(f) \in DOMAIN exprValues
                    /\ exprValues[Placeholder(f)] = p[f]
          /\ n = 0 =>
               /\ updateExpr = <<"UpdatedAt = :UpdatedAt">>
               /\ DOMAIN exprValues = {":UpdatedAt"}

C7_Witness ==
    /\ BuildReturned
    /\ Populated(request.Profile) = 7
    /\ Len(updateExpr) = 15
    /\ updateExpr[15] = "UpdatedAt = :UpdatedAt"

BuiltAgain == BuildReturned /\ invocations >= 2

-----------------------------------------------------------------------------
(* Properties of UpdateUserInDynamoDB (specification SpecDynamo) *)

UpdateUserReturned == entry = "UpdateUserInDynamoDB" /\ pc = "UpdateUserReturned"

\* C9: called with an empty userID, UpdateUserInDynamoDB returns an error and
\* makes no UpdateItem call, whatever the profile contains.
C9_EmptyUserIDRejected ==
    (entry = "UpdateUserInDynamoDB" /\ request.Repo = "") =>
      /\ calls = <<>>
      /\ updatedItems = 0
      /\ pc \in {"UpdateUserInDynamoDB", "UpdateUserReturned"}
      /\ pc = "UpdateUserReturned" => ~ret.isNil

C9_Witness ==
    /\ UpdateUserReturned
    /\ request.Repo = ""
    /\ Populated(request.Profile) = 7
    /\ ~ret.isNil

-----------------------------------------------------------------------------
(* validateProfile called again on the same profile (specification SpecValidate) *)

\* the reasons in the order of the rules in validateProfile
RuleOrder ==
    <<"invalid NSID: only social.shareframe.profile is allowed",
      "displayName must be present",
      "bio must be 256 characters or fewer",
      "theme must be light, dark, or custom",
      "invalid datetime format for updatedAt">>

RuleIndex(reason) == CHOOSE k \in 1..Len(RuleOrder) : RuleOrder[k] = reason

\* the reasons joined into an error, in the order they appear
Reasons(e) == SelectSeq(Tail(e.text), LAMBDA t : t # "; ")

ValidateFailed == entry = "validateProfile" /\ pc = "done" /\ ~ret.isNil

-----------------------------------------------------------------------------
(* What HandleRequest's failure payload shows of a downstream error (Spec) *)

Tokens(text) == {text[i] : i \in 1..Len(text)}

\* the text that varies with the downstream failure: the HTTP status line or
\* the transport error of putRecord, the error of UpdateItem
DownstreamErrorText ==
    UNION {IF IsPutRecord(calls[i])
             THEN {calls[i].resp.Status} \cup Tokens(calls[i].resp.err.text)
             ELSE Tokens(calls[i].resp.err.text) : i \in 1..Len(calls)}
    \ {""}

\* the invocation ended on a failed record write or a failed store update
DownstreamFailed ==
    /\ entry = "HandleRequest"
    /\ pc = "done"
    /\ RecordWriteFailed \/ StoreFailedAfterRecord

\* C12: on a record-service or store failure the payload HandleRequest returns
\* is a fixed message that holds none of the underlying error's text, so that
\* invocations differing only in that text (the HTTP status, the store's
\* error) return the same payload.
C12_FailurePayloadIsGeneric ==
    DownstreamFailed =>
      /\ DOMAIN result = {"error"}
      /\ Tokens(result.error) \cap DownstreamErrorText = {}

-----------------------------------------------------------------------------
(* The store step after a committed record write (Spec) *)

\* the record write of the invocation succeeded and the store step is over
StoreStepOverAfterCommit ==
    /\ entry = "HandleRequest"
    /\ pc \in {"UpdateUserReturned", "done"}
    /\ Len(calls) >= 1
    /\ Answered200(calls[1])

\* C13: whenever the record write has succeeded, the store step issues
\* UpdateItem: the store client rejects no committed request for an empty
\* userID or for having no non-empty field, so the store step fails only when
\* UpdateItem itself fails.
C13_CommittedRequestReachesUpdateItem ==
    StoreStepOverAfterCommit =>
      /\ Len(calls) = 2
      /\ IsUpdateItem(calls[2])
      /\ ret.isNil <=> calls[2].resp.err.isNil

====
